---- MODULE Spec2Model ----
(***************************************************************************)
(* Model of src/app.py: the yearly projection loop of                      *)
(* calculate_401k_growth and the "Retirement Milestones" summary that the  *)
(* Streamlit script renders from its result.                               *)
(*                                                                         *)
(* Number representation.  The sliders deliver rates in steps of 0.5 %, so *)
(* a rate is kept as an integer count of half percents (rate2 = 2 * rate)  *)
(* and "1 + rate / 100" is the exact fraction (200 + rate2) / 200.  The    *)
(* divisors of the Uniform Lifetime Table have one decimal and are kept in *)
(* tenths.  Python floats (the running balance, the withdrawal) are kept   *)
(* as fixed-point numbers with Scale units per dollar; every product and   *)
(* quotient is rounded to the nearest unit the way binary64 rounds every   *)
(* result to the nearest representable value.  round() is Python 3's       *)
(* round-half-to-even.                                                     *)
(***************************************************************************)
EXTENDS Integers, Sequences, FiniteSets

\* ---------------------------------------------------------------- bounds
Scale == 100
MaxInitialBalance == 1000
MaxContribution == 100
MaxAggressive2 == 3
MaxConservative2 == 1

\* ----------------------------------------------------- program constants
MinCurrentAge == 22
DefaultCurrentAge == 40
MaxCurrentAge == 65
LastAge == 100
RmdStartAge == 72
GlidePathYears == 5
DefaultWithdrawal2 == 9
MaxWithdrawal2 == 20

\* divisor * 10 for the ages 72 .. 100
uniform_lifetime_table ==
    [age \in 72..100 |->
        <<274, 265, 255, 246, 237, 229, 220, 211, 202, 194,
          185, 177, 168, 160, 152, 144, 137, 129, 122, 115,
          108, 101, 95, 89, 84, 78, 73, 68, 64>>[age - 71]]

\* ------------------------------------------------------------ arithmetic
\* n / d rounded to the nearest integer, ties to the even neighbour (d > 0)
RoundDiv(n, d) ==
    LET q == n \div d
        r == n - q * d
    IN  IF 2 * r < d THEN q
        ELSE IF 2 * r > d THEN q + 1
        ELSE IF q % 2 = 0 THEN q ELSE q + 1

\* round(x) of a float x given in units
PyRound(units) == RoundDiv(units, Scale)

VARIABLES
    caller,                   \* "ui": the script's call; "direct": a call with current_age > retirement_age
    initial_balance,          \* dollars
    annual_contribution,      \* dollars per year, employer match included
    retirement_age,
    current_age,
    withdrawal_rate,          \* half percents
    enable_rmd,
    growth_rate_aggressive,   \* half percents
    growth_rate_conservative, \* half percents
    pc,                       \* "loop", "returned", "rendered"
    i,                        \* index of the next loop iteration
    balance,                  \* units
    previous_balance,         \* units; the balance that entered the last iteration
    balance_after_growth,     \* units; balance of the last iteration after line 78
    withdrawal,               \* units; withdrawal of the last iteration before rounding
    annual_data,              \* recorded year-end balances, dollars
    withdrawals,              \* recorded withdrawals, dollars
    metrics                   \* the first row of the summary section

inputs == <<caller, initial_balance, annual_contribution, retirement_age, current_age,
            withdrawal_rate, enable_rmd, growth_rate_aggressive, growth_rate_conservative>>

vars == <<caller, initial_balance, annual_contribution, retirement_age, current_age,
          withdrawal_rate, enable_rmd, growth_rate_aggressive, growth_rate_conservative,
          pc, i, balance, previous_balance, balance_after_growth, withdrawal,
          annual_data, withdrawals, metrics>>

\* ------------------------------------------------------------ the inputs
ages_to_project == current_age .. LastAge

NumYears == LastAge + 1 - current_age

\* annual_contributions[k], k = 0 .. NumYears - 1, as the script builds it
\* from a flat annual contribution plus an absolute employer match (their sum
\* is annual_contribution): zero in the years at and after retirement.  A
\* direct caller passes what it likes (here the same amount every year).
annual_contributions(k) ==
    IF caller = "ui"
    THEN IF current_age + k < retirement_age THEN annual_contribution ELSE 0
    ELSE annual_contribution

\* ------------------------------------------------------- one loop iteration
\* variant: the contribution stops one year early
AddsContribution_SkipsLastYear(age) == age + 1 < retirement_age

\* variant: the comparison is reversed
AddsContribution_Flipped(age) == age >= retirement_age

\* line 71
AddsContribution(age) == age < retirement_age

\* lines 71-72
Contribute(bal, age, contribution) ==
    IF AddsContribution(age) THEN bal + Scale * contribution ELSE bal

\* lines 75-78
Grow(bal, age) ==
    IF age + GlidePathYears < retirement_age
    THEN RoundDiv(bal * (200 + growth_rate_aggressive), 200)
    ELSE RoundDiv(bal * (200 + growth_rate_conservative), 200)

\* variant: the rate is applied to the balance after growth
RateWithdrawal_PostGrowth(prev, grown, age) ==
    IF age >= retirement_age THEN RoundDiv(grown * withdrawal_rate, 200) ELSE 0

\* variant: the comparison with retirement_age is reversed
RateWithdrawal_Flipped(prev, grown, age) ==
    IF age <= retirement_age THEN RoundDiv(prev * withdrawal_rate, 200) ELSE 0

\* variant: the rate is used as a fraction, without the division by 100
RateWithdrawal_NoPercent(prev, grown, age) ==
    IF age >= retirement_age THEN RoundDiv(prev * withdrawal_rate, 2) ELSE 0

\* lines 81-83: the withdrawal the rate asks for; grown is the balance after line 78,
\* which the code has at hand and does not use
RateWithdrawal(prev, grown, age) ==
    IF age >= retirement_age THEN RoundDiv(prev * withdrawal_rate, 200) ELSE 0

\* line 88
Rmd(prev, age) == RoundDiv(prev * 10, uniform_lifetime_table[age])

\* variant: the comparison with rmd is reversed
RmdFloor_Flipped(w, prev, age) ==
    IF enable_rmd /\ age >= RmdStartAge /\ age \in DOMAIN uniform_lifetime_table
    THEN IF w > Rmd(prev, age) THEN Rmd(prev, age) ELSE w
    ELSE w

\* variant: RMD starts the year after age 72
RmdFloor_After72(w, prev, age) ==
    IF enable_rmd /\ age > RmdStartAge /\ age \in DOMAIN uniform_lifetime_table
    THEN IF w < Rmd(prev, age) THEN Rmd(prev, age) ELSE w
    ELSE w

\* lines 86-92
RmdFloor(w, prev, age) ==
    IF enable_rmd /\ age >= RmdStartAge /\ age \in DOMAIN uniform_lifetime_table
    THEN IF w < Rmd(prev, age) THEN Rmd(prev, age) ELSE w
    ELSE w

\* variant: the clamp of line 96 is missing
Deduct_NoClamp(grown, w) == grown - w

\* variant: the rounded balance is carried into the next year
Deduct_RoundedCarry(grown, w) ==
    Scale * PyRound(IF grown - w > 0 THEN grown - w ELSE 0)

\* lines 95-96
Deduct(grown, w) == IF grown - w > 0 THEN grown - w ELSE 0

Init ==
    /\ caller \in {"ui", "direct"}
    /\ current_age \in {DefaultCurrentAge, MaxCurrentAge}
    /\ retirement_age \in (current_age - 1) .. LastAge
    /\ (caller = "ui") = (retirement_age >= current_age)
    /\ initial_balance \in {-MaxInitialBalance, 0, MaxInitialBalance}
    /\ (caller = "direct") => initial_balance >= 0
    /\ annual_contribution \in {0, MaxContribution}
    /\ growth_rate_aggressive \in {0, MaxAggressive2}
    /\ growth_rate_conservative \in {0, MaxConservative2}
    /\ withdrawal_rate \in {0, DefaultWithdrawal2, MaxWithdrawal2}
    /\ enable_rmd \in BOOLEAN
    /\ pc = "loop"
    /\ i = 0
    /\ balance = Scale * initial_balance
    /\ previous_balance = 0
    /\ balance_after_growth = 0
    /\ withdrawal = 0
    /\ annual_data = <<>>
    /\ withdrawals = <<>>
    /\ metrics = [index |-> 0, position |-> 0, balance_at_retirement |-> 0,
                  first_withdrawal |-> 0, first_rmd_shown |-> FALSE, first_rmd |-> 0]

YearStep ==
    /\ pc = "loop"
    /\ i < NumYears
    /\ LET age == current_age + i
           grown == Grow(Contribute(balance, age, annual_contributions(i)), age)
           w == RmdFloor(RateWithdrawal(balance, grown, age), balance, age)
           bal == Deduct(grown, w)
       IN  /\ previous_balance' = balance
           /\ balance_after_growth' = grown
           /\ withdrawal' = w
           /\ balance' = bal
           /\ annual_data' = Append(annual_data, PyRound(bal))
           /\ withdrawals' = Append(withdrawals, PyRound(w))
    /\ i' = i + 1
    /\ UNCHANGED <<inputs, pc, metrics>>

Return ==
    /\ pc = "loop"
    /\ i = NumYears
    /\ pc' = "returned"
    /\ UNCHANGED <<inputs, i, balance, previous_balance, balance_after_growth,
                   withdrawal, annual_data, withdrawals, metrics>>

\* ------------------------------------------------------ the summary section
\* 1-based position that Python's seq[k] reads, 0 for an IndexError
PyIndex(len, k) ==
    IF k >= 0
    THEN IF k < len THEN k + 1 ELSE 0
    ELSE IF -k <= len THEN len + k + 1 ELSE 0

RECURSIVE FirstPositive(_, _)
FirstPositive(seq, k) ==
    IF k > Len(seq) THEN 0
    ELSE IF seq[k] > 0 THEN seq[k] ELSE FirstPositive(seq, k + 1)

RenderMetrics ==
    /\ pc = "returned"
    /\ caller = "ui"
    /\ LET index == retirement_age - current_age - 1
           position == PyIndex(Len(annual_data), index)
           rmd_index == RmdStartAge - current_age
           rmd_shown == RmdStartAge >= current_age /\ rmd_index < Len(withdrawals)
       IN  /\ position > 0
           /\ metrics' = [index |-> index,
                          position |-> position,
                          balance_at_retirement |-> annual_data[position],
                          first_withdrawal |-> FirstPositive(withdrawals, 1),
                          first_rmd_shown |-> rmd_shown,
                          first_rmd |-> IF rmd_shown THEN withdrawals[rmd_index + 1] ELSE 0]
    /\ pc' = "rendered"
    /\ UNCHANGED <<inputs, i, balance, previous_balance, balance_after_growth,
                   withdrawal, annual_data, withdrawals>>

Next == YearStep \/ Return \/ RenderMetrics

Spec == Init /\ [][Next]_vars

\* ================================================================ claims
\* input the input layer is specified to supply: a call made by the script
\* (so current_age <= retirement_age <= 100) with a non-negative balance
InRange ==
    /\ caller = "ui"
    /\ initial_balance >= 0
    /\ current_age \in MinCurrentAge..MaxCurrentAge
    /\ retirement_age \in current_age..LastAge

\* age of the iteration that has just completed (meaningful when i >= 1)
StepAge == current_age + i - 1

RmdActive(age) ==
    enable_rmd /\ age >= RmdStartAge /\ age \in DOMAIN uniform_lifetime_table

\* the integer n is the float given in units rounded to the nearest integer
WithinHalf(n, units) ==
    /\ 2 * (n * Scale - units) <= Scale
    /\ 2 * (units - n * Scale) <= Scale

RECURSIVE SumContributions(_)
\* annual_contributions[0] + ... + annual_contributions[k]
SumContributions(k) ==
    IF k < 0 THEN 0 ELSE annual_contributions(k) + SumContributions(k - 1)

\* ---- C1
\* C1: every recorded year-end balance is >= 0.  It holds for every input
\* the model supplies, the in-range ones of the claim included, because of
\* the clamp of line 96.
C1_NonNegativity ==
    \A k \in 1..Len(annual_data) : annual_data[k] >= 0

C1_Witness ==
    /\ InRange
    /\ pc = "returned"
    /\ enable_rmd
    /\ withdrawal_rate = MaxWithdrawal2
    /\ withdrawals[Len(withdrawals)] > 0
    /\ annual_data[Len(annual_data)] >= 0

\* ---- C2
\* C2 as stated: for in-range input no withdrawal is recorded for a year
\* whose age is below retirement_age.
C2_PreRetirementSilence_Original ==
    InRange =>
        \A k \in 1..Len(withdrawals) :
            current_age + k - 1 < retirement_age => withdrawals[k] = 0

\* C2 amended: for in-range input no withdrawal is recorded for a year whose
\* age is below retirement_age, provided RMD is disabled or the age is below 72.
C2_PreRetirementSilence ==
    InRange =>
        \A k \in 1..Len(withdrawals) :
            (current_age + k - 1 < retirement_age /\ ~RmdActive(current_age + k - 1))
                => withdrawals[k] = 0

C2_Witness ==
    /\ InRange
    /\ enable_rmd
    /\ withdrawal_rate > 0
    /\ retirement_age = LastAge
    /\ current_age + i = RmdStartAge
    /\ balance > Scale * MaxInitialBalance
    /\ \A k \in 1..Len(withdrawals) : withdrawals[k] = 0

\* ---- C3
\* C3 as stated: with RMD enabled, in a year whose age is in the table, the
\* recorded (rounded) withdrawal is >= balance_before / divisor(age).
C3_RmdFloor_Original ==
    (InRange /\ i >= 1 /\ enable_rmd /\ StepAge \in DOMAIN uniform_lifetime_table)
        => withdrawals[i] * Scale * uniform_lifetime_table[StepAge]
               >= previous_balance * 10

\* C3 amended: with RMD enabled, in a year whose age is in the table, the
\* withdrawal before rounding is >= balance_before / divisor(age) (as far as
\* the arithmetic resolves it: to half a unit), and the recorded withdrawal is
\* that amount rounded to the nearest integer, so it falls short of
\* balance_before / divisor(age) by at most 0.5.
C3_RmdFloor ==
    (InRange /\ i >= 1 /\ enable_rmd /\ StepAge \in DOMAIN uniform_lifetime_table)
        => /\ 2 * (withdrawal * uniform_lifetime_table[StepAge] - previous_balance * 10)
                  >= - uniform_lifetime_table[StepAge]
           /\ WithinHalf(withdrawals[i], withdrawal)

C3_Witness ==
    /\ InRange
    /\ i >= 1
    /\ enable_rmd
    /\ StepAge \in DOMAIN uniform_lifetime_table
    /\ withdrawal = Rmd(previous_balance, StepAge)
    /\ withdrawal > 0
    /\ withdrawals[i] * Scale < withdrawal

\* ---- C4
\* C4 as stated: from the second year on, the balance entering a year is the
\* rounded balance recorded for the year before.
C4_RoundedCarryIn_Original ==
    (InRange /\ i >= 2) => previous_balance = Scale * annual_data[i - 1]

\* C4 amended: the balance entering year 0 is round(initial_balance); the
\* balance carried out of a year is the unrounded max(balance - withdrawal, 0),
\* and the recorded balances[i - 1] is only its rounding, so the balance
\* entering year i >= 1 differs from balances[i - 1] by at most 0.5.
C4_UnroundedCarryIn ==
    /\ i = 1 => previous_balance = Scale * initial_balance
    /\ i >= 1 =>
        /\ balance = IF balance_after_growth - withdrawal > 0
                     THEN balance_after_growth - withdrawal ELSE 0
        /\ WithinHalf(annual_data[i], balance)
    /\ i >= 2 => WithinHalf(annual_data[i - 1], previous_balance)

C4_Witness ==
    /\ InRange
    /\ i >= 2
    /\ previous_balance # Scale * annual_data[i - 1]
    /\ WithinHalf(annual_data[i - 1], previous_balance)

\* ---- C5
\* C5: with both growth rates 0, withdrawal rate 0 and RMD disabled, every
\* recorded balance of a year before retirement is initial_balance plus the
\* contributions of the years up to and including that year.
C5_ZeroGrowthSum ==
    (/\ InRange
     /\ growth_rate_aggressive = 0
     /\ growth_rate_conservative = 0
     /\ withdrawal_rate = 0
     /\ ~enable_rmd)
        => \A k \in 1..Len(annual_data) :
               current_age + k - 1 < retirement_age
                   => annual_data[k] = initial_balance + SumContributions(k - 1)

C5_Witness ==
    /\ InRange
    /\ growth_rate_aggressive = 0
    /\ growth_rate_conservative = 0
    /\ withdrawal_rate = 0
    /\ ~enable_rmd
    /\ annual_contribution > 0
    /\ i >= 2
    /\ current_age + i = retirement_age
    /\ annual_data[i] = initial_balance + i * annual_contribution

\* ---- C6
\* C6 as stated: with RMD enabled and withdrawal rate 0, the withdrawal
\* recorded for age 72 is > 0 for every in-range input.
C6_RmdForcesWithdrawal_Original ==
    (/\ InRange
     /\ enable_rmd
     /\ withdrawal_rate = 0
     /\ Len(withdrawals) >= RmdStartAge - current_age + 1)
        => withdrawals[RmdStartAge - current_age + 1] > 0

\* C6 amended: with RMD enabled and withdrawal rate 0, the withdrawal
\* recorded for age 72 is > 0 when the balance entering that year is at
\* least 14 (half the divisor 27.4, rounded up) and 0 when it is at most 13,
\* in particular when the balance is 0.
C6_RmdForcesWithdrawal ==
    (/\ InRange
     /\ enable_rmd
     /\ withdrawal_rate = 0
     /\ i = RmdStartAge - current_age + 1)
        => /\ previous_balance
                  >= Scale * ((uniform_lifetime_table[RmdStartAge] \div 20) + 1)
              => withdrawals[i] > 0
           /\ previous_balance
                  <= Scale * (uniform_lifetime_table[RmdStartAge] \div 20)
              => withdrawals[i] = 0

C6_Witness ==
    /\ InRange
    /\ enable_rmd
    /\ withdrawal_rate = 0
    /\ retirement_age > RmdStartAge
    /\ i = RmdStartAge - current_age + 1
    /\ previous_balance >= Scale * ((uniform_lifetime_table[RmdStartAge] \div 20) + 1)
    /\ withdrawals[i] > 0

\* ---- C7
\* C7 as stated: a call with current_age > retirement_age fails: it never
\* returns balances and withdrawals.
C7_InvalidRangeRejected_Original ==
    current_age > retirement_age => pc # "returned"

\* C7 amended: a call with current_age > retirement_age is not rejected: it
\* returns two sequences with one entry per contribution, computed with no
\* contribution added in any year, the conservative growth rate in every
\* year and the rate-based withdrawal as a floor from year 0 on.
C7_InvalidRangeAccepted ==
    current_age > retirement_age
        => /\ i >= 1 =>
                /\ balance_after_growth
                       = RoundDiv(previous_balance * (200 + growth_rate_conservative), 200)
                /\ withdrawal >= RoundDiv(previous_balance * withdrawal_rate, 200)
           /\ pc = "returned" =>
                /\ Len(annual_data) = NumYears
                /\ Len(withdrawals) = NumYears

C7_Witness ==
    /\ current_age > retirement_age
    /\ pc = "returned"
    /\ annual_contribution > 0
    /\ withdrawal_rate > 0
    /\ withdrawals[1] > 0
    /\ Len(annual_data) = NumYears

\* ---- C8
\* C8: in a year at or after retirement in which the RMD floor does not
\* raise the amount, the withdrawal before rounding is balance_before *
\* withdrawal_rate / 100, whatever that year's growth and contribution; in a
\* year before retirement without RMD it is 0.
C8_WithdrawalBase ==
    i >= 1 =>
        LET rated == RoundDiv(previous_balance * withdrawal_rate, 200)
        IN  /\ (/\ StepAge >= retirement_age
                /\ (~RmdActive(StepAge) \/ Rmd(previous_balance, StepAge) <= rated))
                   => withdrawal = rated
            /\ (StepAge < retirement_age /\ ~RmdActive(StepAge))
                   => withdrawal = 0

C8_Witness ==
    /\ InRange
    /\ i >= 1
    /\ StepAge >= retirement_age
    /\ ~enable_rmd
    /\ growth_rate_conservative > 0
    /\ withdrawal > 0
    /\ balance_after_growth > previous_balance
    /\ withdrawal = RoundDiv(previous_balance * withdrawal_rate, 200)

\* ---- C9
\* C9 as stated: the index the script uses for the "Balance at Retirement"
\* metric lies in 0 .. len(balances) - 1, and the metric shows the year-end
\* balance of age retirement_age - 1.
C9_MetricIndexInRange_Original ==
    pc = "rendered"
        => /\ metrics.index \in 0 .. (Len(annual_data) - 1)
           /\ metrics.balance_at_retirement = annual_data[retirement_age - current_age]

\* ---- C10
\* C10: for in-range input the withdrawal of a year never exceeds the
\* balance after that year's contribution and growth, so the clamp leaves
\* the balance unchanged, and the recorded withdrawal does not exceed that
\* balance either.
C10_ClampInactive ==
    (InRange /\ i >= 1)
        => /\ withdrawal <= balance_after_growth
           /\ balance = balance_after_growth - withdrawal
           /\ Scale * withdrawals[i] <= balance_after_growth

C10_Witness ==
    /\ InRange
    /\ i >= 1
    /\ enable_rmd
    /\ StepAge = LastAge
    /\ withdrawal = Rmd(previous_balance, StepAge)
    /\ withdrawal > 0
    /\ withdrawal <= balance_after_growth

====
